---- MODULE Spec2Model ----
(***************************************************************************)
(* Model of the streaming client of gopenrouter: the request initiators    *)
(* CompletionStream / ChatCompletionStream, the error classification of    *)
(* handleErrorResp, and the stream readers' Recv and Close on top of a     *)
(* bufio.Scanner that reads the HTTP response body.                        *)
(*                                                                         *)
(* Bytes are grouped into atoms: "data:", " ", ":", "[DONE]", "\r", "\n"   *)
(* stand for themselves, the other atoms stand for a JSON text or a run of *)
(* other characters (see JSONText).  A body is a sequence of atoms.        *)
(***************************************************************************)
EXTENDS Integers, Sequences, FiniteSets, TLC

\* Largest number of lines in a response body.
MaxLines == 3
\* Largest number of Recv calls on one reader.
MaxRecv == 4
\* Largest number of Close calls on one reader.
MaxClose == 2

\* bufio.MaxScanTokenSize, the token limit of a Scanner made by bufio.NewScanner.
MaxScanTokenSize == 65536
\* bufio's startBufSize, the size of the first buffer a Scanner allocates.
StartBufSize == 4096
\* Number of bytes of a long run that a Read returns when it returns few.
ShortRead == 78

Nil == "nil"

(***************************************************************************)
(* Bytes and strings                                                       *)
(***************************************************************************)

\* Number of bytes an atom stands for.
ByteLen(a) ==
    CASE a = "data:" -> 5
      [] a = "[DONE]" -> 6
      [] a = "event" -> 8
      [] a \in {" ", ":", "\r", "\n", "\t"} -> 1
      [] a \in {"JBIG", "JCUT", "XBIG", "PAD"} -> MaxScanTokenSize
      [] a = "J1" -> 25
      [] a = "J2" -> 10
      [] a = "JTYPE" -> 33
      [] a = "JPROV" -> 23
      [] a \in {"E_API", "E_TYPE"} -> 36
      [] a = "E_NONE" -> 2
      [] a \in {"E_NULL", "JBAD"} -> 14

RECURSIVE Bytes(_)
Bytes(s) == IF s = <<>> THEN 0 ELSE ByteLen(Head(s)) + Bytes(Tail(s))

\* unicode.IsSpace on the atoms of the model; "PAD" is a run of spaces as
\* long as the scanner's token limit.
IsSpace(a) == a \in {" ", "\t", "\r", "\n", "PAD"}

RECURSIVE TrimLeft(_)
TrimLeft(s) == IF s # <<>> /\ IsSpace(Head(s)) THEN TrimLeft(Tail(s)) ELSE s

RECURSIVE TrimRight(_)
TrimRight(s) ==
    IF s # <<>> /\ IsSpace(s[Len(s)]) THEN TrimRight(SubSeq(s, 1, Len(s) - 1)) ELSE s

\* A TrimSpace that leaves trailing white space in place.
TrimSpaceLeftOnly(s) == TrimLeft(s)

\* strings.TrimSpace
TrimSpace(s) == TrimRight(TrimLeft(s))

\* strings.HasPrefix
HasPrefix(s, p) == Len(s) >= Len(p) /\ SubSeq(s, 1, Len(p)) = p

\* A TrimPrefix that leaves the prefix in place.
TrimPrefixKeeps(s, p) == s

\* strings.TrimPrefix
TrimPrefix(s, p) == IF HasPrefix(s, p) THEN SubSeq(s, Len(p) + 1, Len(s)) ELSE s

\* bytes.IndexByte(data, '\n'): 0 when there is none (1-based otherwise).
RECURSIVE IndexNL(_, _)
IndexNL(s, i) ==
    IF i > Len(s) THEN 0 ELSE IF s[i] = "\n" THEN i ELSE IndexNL(s, i + 1)

(***************************************************************************)
(* encoding/json on the JSON texts of the model                            *)
(***************************************************************************)

\* The JSON texts the atoms stand for:
\*   J1     {"id":"a","provider":"P"}
\*   J2     {"id":"b"}
\*   JBIG   {"id":"c","pad":"x...x"}           (longer than the token limit)
\*   JTYPE  {"provider":"Q","created":"soon"}  (created is an int64 field)
\*   JPROV  {"id":"d","provider":5}            (provider is a string field of
\*                                              the completion chunk only)
\*   E_API  {"error":{"code":400,"message":"m"}}
\*   E_NONE {}
\*   E_NULL {"error":null}
\*   E_TYPE {"error":{"code":"x","message":"m"}}  (code is an int field)
\*   JBAD   {invalid json}
\*   JCUT   the part of JBIG that fits into the scanner's buffer
\* and XBIG stands for a run of 64 KiB of the letter x.
JSONText == {"J1", "J2", "JBIG", "JTYPE", "JPROV", "E_API", "E_NONE", "E_NULL", "E_TYPE"}

\* json.Valid: one JSON value between optional white space.
ValidJSON(data) == Len(TrimSpace(data)) = 1 /\ TrimSpace(data)[1] \in JSONText

ZeroChunk == [id |-> "", provider |-> ""]

\* An Unmarshal that does not report a value of the wrong type.
UnmarshalChunkLenient(data, response) ==
    IF ~ValidJSON(data) THEN [err |-> "syntax", response |-> response]
    ELSE LET j == TrimSpace(data)[1] IN
         CASE j = "J1" -> [err |-> Nil, response |-> [id |-> "a", provider |-> "P"]]
           [] j = "J2" -> [err |-> Nil, response |-> [response EXCEPT !.id = "b"]]
           [] j = "JBIG" -> [err |-> Nil, response |-> [response EXCEPT !.id = "c"]]
           [] j = "JTYPE" -> [err |-> Nil, response |-> [response EXCEPT !.provider = "Q"]]
           [] j = "JPROV" -> [err |-> Nil, response |-> [response EXCEPT !.id = "d"]]
           [] OTHER -> [err |-> Nil, response |-> response]

\* json.Unmarshal(data, &response) for a stream chunk: a syntax error leaves
\* response alone; a type error is reported after the other fields were stored;
\* keys the chunk type does not have are ignored.
UnmarshalChunk(data, response) ==
    IF ~ValidJSON(data) THEN [err |-> "syntax", response |-> response]
    ELSE LET j == TrimSpace(data)[1] IN
         CASE j = "J1" -> [err |-> Nil, response |-> [id |-> "a", provider |-> "P"]]
           [] j = "J2" -> [err |-> Nil, response |-> [response EXCEPT !.id = "b"]]
           [] j = "JBIG" -> [err |-> Nil, response |-> [response EXCEPT !.id = "c"]]
           [] j = "JTYPE" -> [err |-> "type", response |-> [response EXCEPT !.provider = "Q"]]
           [] j = "JPROV" -> [err |-> "type", response |-> [response EXCEPT !.id = "d"]]
           [] OTHER -> [err |-> Nil, response |-> response]

\* The zero value of ChatCompletionStreamResponse, which has no Provider.
ZeroChatChunk == [id |-> ""]

\* json.Unmarshal(data, &response) for a chat stream chunk: the key
\* "provider" is one the chunk type does not have.
UnmarshalChatChunk(data, response) ==
    IF ~ValidJSON(data) THEN [err |-> "syntax", response |-> response]
    ELSE LET j == TrimSpace(data)[1] IN
         CASE j = "J1" -> [err |-> Nil, response |-> [response EXCEPT !.id = "a"]]
           [] j = "J2" -> [err |-> Nil, response |-> [response EXCEPT !.id = "b"]]
           [] j = "JBIG" -> [err |-> Nil, response |-> [response EXCEPT !.id = "c"]]
           [] j = "JTYPE" -> [err |-> "type", response |-> response]
           [] j = "JPROV" -> [err |-> Nil, response |-> [response EXCEPT !.id = "d"]]
           [] OTHER -> [err |-> Nil, response |-> response]

\* A nil *APIError, and &APIError{Code: code, Message: message}.
NilAPIError == [isNil |-> TRUE, Code |-> 0, Message |-> ""]
APIError(code, message) == [isNil |-> FALSE, Code |-> code, Message |-> message]

\* json.Unmarshal(body, &errRes) for ErrorResponse{Error *APIError}.
UnmarshalErrorResponse(body) ==
    IF ~ValidJSON(body) THEN [err |-> "syntax", Error |-> NilAPIError]
    ELSE LET j == TrimSpace(body)[1] IN
         CASE j = "E_API" -> [err |-> Nil, Error |-> APIError(400, "m")]
           [] j = "E_TYPE" -> [err |-> "type", Error |-> APIError(0, "m")]
           [] OTHER -> [err |-> Nil, Error |-> NilAPIError]

(***************************************************************************)
(* bufio.Scanner with the ScanLines split function                         *)
(***************************************************************************)

\* dropCR
DropCR(s) == IF s # <<>> /\ s[Len(s)] = "\r" THEN SubSeq(s, 1, Len(s) - 1) ELSE s

\* bufio.ScanLines(data, atEOF)
ScanLines(data, atEOF) ==
    LET i == IndexNL(data, 1) IN
    IF atEOF /\ data = <<>> THEN [advance |-> 0, has |-> FALSE, token |-> <<>>]
    ELSE IF i > 0 THEN [advance |-> i, has |-> TRUE, token |-> DropCR(SubSeq(data, 1, i - 1))]
    ELSE IF atEOF THEN [advance |-> Len(data), has |-> TRUE, token |-> DropCR(data)]
    ELSE [advance |-> 0, has |-> FALSE, token |-> <<>>]

\* An Err that reports no error at all.
ScannerErrNone(e) == Nil

\* An Err that reports io.EOF like any other error.
ScannerErrRaw(e) == e

\* Scanner.Err
ScannerErr(e) == IF e = "EOF" THEN Nil ELSE e

\* Scanner.setErr
SetErr(old, e) == IF old = Nil \/ old = "EOF" THEN e ELSE old

\* The atoms that stand for MaxScanTokenSize bytes.
BigAtoms == {"JBIG", "XBIG", "PAD"}

\* The first bytes of an atom that is not in the buffer as a whole: a cut
\* JSON text is no JSON text, a part of a run is a run.
Cut(a) == IF a = "JBIG" THEN "JCUT" ELSE a

\* The buffer of a Scanner: data is the unread part s.buf[s.start:s.end] in
\* atoms, the last of which stands for its first part bytes only when
\* part > 0; start is s.start and len is len(s.buf), in bytes.
NewBuffer == [data |-> <<>>, part |-> 0, start |-> 0, len |-> 0]

\* s.end - s.start
BufBytes(b) ==
    IF b.part > 0 THEN Bytes(SubSeq(b.data, 1, Len(b.data) - 1)) + b.part ELSE Bytes(b.data)

\* len(s.buf) - s.end, the most the next Read can return.
Free(b) == b.len - b.start - BufBytes(b)

Min(x, y) == IF x <= y THEN x ELSE y

\* One pass of Scanner.Scan up to its Read: b is the scanner's buffer, e its
\* err.  st is "token" (Scan returns true), "stop" (Scan returns false) or
\* "read" (Scan calls Read on the body, after it moved the data to the start
\* of the buffer or doubled the buffer when that was called for).
ScanBuffered(b, e) ==
    LET sl == IF b.data # <<>> \/ e # Nil THEN ScanLines(b.data, e # Nil)
              ELSE [advance |-> 0, has |-> FALSE, token |-> <<>>]
        whole == sl.advance = Len(b.data)
        advanced == IF whole THEN BufBytes(b) ELSE Bytes(SubSeq(b.data, 1, sl.advance))
        moved == IF b.start > 0 /\ (b.start + BufBytes(b) = b.len \/ b.start > b.len \div 2)
                 THEN [b EXCEPT !.start = 0] ELSE b
        full == moved.start + BufBytes(moved) = moved.len
    IN
    IF sl.has
    THEN [st |-> "token", token |-> sl.token, serr |-> e,
          buf |-> [data |-> SubSeq(b.data, sl.advance + 1, Len(b.data)),
                   part |-> IF whole THEN 0 ELSE b.part,
                   start |-> b.start + advanced, len |-> b.len]]
    ELSE IF e # Nil
    THEN [st |-> "stop", token |-> <<>>, serr |-> e,
          buf |-> [data |-> <<>>, part |-> 0, start |-> 0, len |-> b.len]]
    ELSE IF full /\ moved.len >= MaxScanTokenSize
    THEN [st |-> "stop", token |-> <<>>, buf |-> moved, serr |-> SetErr(e, "ErrTooLong")]
    ELSE IF full
    THEN [st |-> "read", token |-> <<>>, serr |-> e,
          buf |-> [moved EXCEPT !.len = IF @ = 0 THEN StartBufSize
                                        ELSE Min(2 * @, MaxScanTokenSize)]]
    ELSE [st |-> "read", token |-> <<>>, buf |-> moved, serr |-> e]

\* A scanner that stores the atoms a Read returned twice.
FillTwice(b, p, k) ==
    IF b.part > 0 THEN [b EXCEPT !.part = @ + Min(k, Free(b))]
    ELSE [b EXCEPT !.data = @ \o p \o p]

\* The buffer after a Read stored what it returned behind the data: the
\* atoms p, of which a last atom that is a long run comes with at most k
\* bytes, or at most k more bytes of the run the buffer ends with.  A Read
\* returns no more than the buffer has room for.
Fill(b, p, k) ==
    IF b.part > 0
    THEN [b EXCEPT !.part = @ + Min(k, Free(b))]
    ELSE IF p # <<>> /\ p[Len(p)] \in BigAtoms
    THEN [b EXCEPT !.data = @ \o SubSeq(p, 1, Len(p) - 1) \o <<Cut(p[Len(p)])>>,
                   !.part = Min(k, Free(b) - Bytes(SubSeq(p, 1, Len(p) - 1)))]
    ELSE [b EXCEPT !.data = @ \o p]

(***************************************************************************)
(* Errors                                                                  *)
(***************************************************************************)

NoError == [type |-> Nil, of |-> Nil]
EOF == [type |-> "io.EOF", of |-> Nil]
\* fmt.Errorf("error reading stream: %w", err)
ErrReadingStream(err) == [type |-> "error reading stream", of |-> err]

(***************************************************************************)
(* Recv                                                                    *)
(***************************************************************************)

\* A Classify that takes an empty line for the end of the stream.
ClassifyBlankEnds(line) ==
    IF line = <<>> THEN "done"
    ELSE IF HasPrefix(line, <<":">>) THEN "skip"
    ELSE IF HasPrefix(line, <<"data:", " ">>)
    THEN IF TrimPrefix(line, <<"data:", " ">>) = <<"[DONE]">> THEN "done" ELSE "data"
    ELSE "skip"

\* A Classify that ends the stream at a line it does not recognise.
ClassifyUnknownEnds(line) ==
    IF line = <<>> \/ HasPrefix(line, <<":">>) THEN "skip"
    ELSE IF HasPrefix(line, <<"data:", " ">>)
    THEN IF TrimPrefix(line, <<"data:", " ">>) = <<"[DONE]">> THEN "done" ELSE "data"
    ELSE "done"

\* A Classify that takes "data:" without the space for the data prefix.
ClassifyWithoutSpace(line) ==
    IF line = <<>> \/ HasPrefix(line, <<":">>) THEN "skip"
    ELSE IF HasPrefix(line, <<"data:">>)
    THEN IF TrimLeft(TrimPrefix(line, <<"data:">>)) = <<"[DONE]">> THEN "done" ELSE "data"
    ELSE "skip"

\* What Recv does with a trimmed line: "skip" it (an empty line, a comment, or
\* a line that is no data line), end the stream ("done"), or decode it ("data").
Classify(line) ==
    IF line = <<>> \/ HasPrefix(line, <<":">>) THEN "skip"
    ELSE IF HasPrefix(line, <<"data:", " ">>)
    THEN IF TrimPrefix(line, <<"data:", " ">>) = <<"[DONE]">> THEN "done" ELSE "data"
    ELSE "skip"

\* The loop of Recv from the scanner state (b, e) with the local variable
\* response, up to the return of Recv (kind "return") or to the next Read of
\* the body (kind "read").  cause says which return statement was taken.
\* iters counts the iterations of the loop that ended (a Scan that returned)
\* and lines the lines these iterations took from the scanner.  An iteration
\* calls Scan once: s is the one result of that call and response the value
\* of the variable when the iteration starts.
NextIteration(r) == [r EXCEPT !.iters = @ + 1, !.lines = @ + 1]

RECURSIVE RecvLoop(_, _, _)
RecvLoop(b, e, response0) ==
    CHOOSE r \in {
        LET line == TrimSpace(s.token)
            u == UnmarshalChunk(TrimPrefix(line, <<"data:", " ">>), response)
            Return(cause, resp, err) ==
                [kind |-> "return", cause |-> cause, buf |-> s.buf, serr |-> s.serr,
                 response |-> resp, err |-> err, iters |-> 1,
                 lines |-> IF cause = "stop" THEN 0 ELSE 1]
        IN
        CASE s.st = "read" ->
               [kind |-> "read", cause |-> "read", buf |-> s.buf, serr |-> s.serr,
                response |-> response, err |-> NoError, iters |-> 0, lines |-> 0]
          [] s.st = "stop" ->
               IF ScannerErr(s.serr) # Nil
               THEN Return("stop", response, ErrReadingStream(ScannerErr(s.serr)))
               ELSE Return("stop", response, EOF)
          [] OTHER ->
               CASE Classify(line) = "skip" -> NextIteration(RecvLoop(s.buf, s.serr, response))
                 [] Classify(line) = "done" -> Return("done", response, EOF)
                 [] OTHER ->
                      IF u.err # Nil
                      THEN NextIteration(RecvLoop(s.buf, s.serr, u.response))
                      ELSE Return("chunk", u.response, NoError)
        : s \in {ScanBuffered(b, e)}, response \in {response0} } : TRUE

\* A chat Recv that returns an error for a payload that does not decode.
RECURSIVE ChatRecvLoopFailsOnMalformed(_, _, _)
ChatRecvLoopFailsOnMalformed(b, e, response0) ==
    CHOOSE r \in {
        LET line == TrimSpace(s.token)
            u == UnmarshalChatChunk(TrimPrefix(line, <<"data:", " ">>), response)
            Return(cause, resp, err) ==
                [kind |-> "return", cause |-> cause, buf |-> s.buf, serr |-> s.serr,
                 response |-> resp, err |-> err, iters |-> 1,
                 lines |-> IF cause = "stop" THEN 0 ELSE 1]
        IN
        CASE s.st = "read" ->
               [kind |-> "read", cause |-> "read", buf |-> s.buf, serr |-> s.serr,
                response |-> response, err |-> NoError, iters |-> 0, lines |-> 0]
          [] s.st = "stop" ->
               IF ScannerErr(s.serr) # Nil
               THEN Return("stop", response, ErrReadingStream(ScannerErr(s.serr)))
               ELSE Return("stop", response, EOF)
          [] OTHER ->
               CASE Classify(line) = "skip" ->
                      NextIteration(ChatRecvLoopFailsOnMalformed(s.buf, s.serr, response))
                 [] Classify(line) = "done" -> Return("done", response, EOF)
                 [] OTHER ->
                      IF u.err # Nil
                      THEN Return("chunk", u.response, ErrReadingStream(u.err))
                      ELSE Return("chunk", u.response, NoError)
        : s \in {ScanBuffered(b, e)}, response \in {response0} } : TRUE

\* The loop of ChatCompletionStreamReader.Recv: the loop of the completion
\* reader with a chat chunk as the target of json.Unmarshal.
RECURSIVE ChatRecvLoop(_, _, _)
ChatRecvLoop(b, e, response0) ==
    CHOOSE r \in {
        LET line == TrimSpace(s.token)
            u == UnmarshalChatChunk(TrimPrefix(line, <<"data:", " ">>), response)
            Return(cause, resp, err) ==
                [kind |-> "return", cause |-> cause, buf |-> s.buf, serr |-> s.serr,
                 response |-> resp, err |-> err, iters |-> 1,
                 lines |-> IF cause = "stop" THEN 0 ELSE 1]
        IN
        CASE s.st = "read" ->
               [kind |-> "read", cause |-> "read", buf |-> s.buf, serr |-> s.serr,
                response |-> response, err |-> NoError, iters |-> 0, lines |-> 0]
          [] s.st = "stop" ->
               IF ScannerErr(s.serr) # Nil
               THEN Return("stop", response, ErrReadingStream(ScannerErr(s.serr)))
               ELSE Return("stop", response, EOF)
          [] OTHER ->
               CASE Classify(line) = "skip" ->
                      NextIteration(ChatRecvLoop(s.buf, s.serr, response))
                 [] Classify(line) = "done" -> Return("done", response, EOF)
                 [] OTHER ->
                      IF u.err # Nil
                      THEN NextIteration(ChatRecvLoop(s.buf, s.serr, u.response))
                      ELSE Return("chunk", u.response, NoError)
        : s \in {ScanBuffered(b, e)}, response \in {response0} } : TRUE

(***************************************************************************)
(* Responses of the transport                                              *)
(***************************************************************************)

\* The lines a stream body is made of, without their line ends.
DataLine(payload) == <<"data:", " ", payload>>
Catalogue ==
    { <<>>, <<" ", ":">>,
      DataLine("J1"), DataLine("J2"), DataLine("[DONE]"),
      DataLine("JBAD"), DataLine("JTYPE"), DataLine("JBIG") }

\* The bytes of the lines ls; the last line ends with "\n" iff terminated.
RECURSIVE Join(_, _)
Join(ls, terminated) ==
    IF ls = <<>> THEN <<>>
    ELSE IF Len(ls) = 1 THEN IF terminated THEN ls[1] \o <<"\n">> ELSE ls[1]
    ELSE ls[1] \o <<"\n">> \o Join(Tail(ls), terminated)

\* The lines of a stream in which comments can be longer than the token limit.
CommentCatalogue ==
    { <<>>, <<" ", ":">>, <<":", "XBIG">>,
      DataLine("J1"), DataLine("J2"), DataLine("[DONE]"), DataLine("JBAD") }

LineSeqs(catalogue) == UNION {[1..k -> catalogue] : k \in 0..MaxLines}

\* Bodies of error responses (and of other short responses).
ShortBodies ==
    { <<<<"E_API">>>>, <<<<"E_NONE">>>>, <<<<"E_NULL">>>>, <<<<"E_TYPE">>>>,
      <<<<"JBAD">>>>, <<DataLine("J1"), DataLine("[DONE]")>>,
      <<<<"J1">>>>, <<<<"JTYPE">>>>, <<<<"JPROV">>>>, <<<<"J1">>, <<"JBAD">>>> }

\* What Read returns at the end of the body: io.EOF or a failure of the transport.
Ends == {"EOF", "unexpected EOF"}

StatusCodes == {100, 199, 200, 204, 299, 300, 304, 399, 400, 404, 500}

Response(code, ls, terminated, end, closeErr) ==
    [present |-> TRUE, hasBody |-> TRUE, StatusCode |-> code, lines |-> ls,
     terminated |-> terminated, body |-> Join(ls, terminated), end |-> end,
     closeErr |-> closeErr]

\* A nil *http.Response, and a response whose Body is nil.
NoResponse ==
    [present |-> FALSE, hasBody |-> FALSE, StatusCode |-> 0, lines |-> <<>>,
     terminated |-> FALSE, body |-> <<>>, end |-> "EOF", closeErr |-> Nil]
NoBodyResponse == [NoResponse EXCEPT !.present = TRUE, !.StatusCode = 200]

\* The successful responses whose bodies are made of the lines of catalogue.
StreamResponses(catalogue) ==
    {Response(200, c.ls, c.t, e, Nil) :
        c \in {x \in [ls : LineSeqs(catalogue), t : BOOLEAN] : x.ls = <<>> => x.t},
        e \in Ends}

Responses ==
    StreamResponses(Catalogue)
    \cup
    {Response(code, ls, TRUE, e, c) :
        code \in StatusCodes, ls \in ShortBodies, e \in Ends, c \in {Nil, "close failed"}}

(***************************************************************************)
(* The request initiators and handleErrorResp                              *)
(***************************************************************************)

\* A handleErrorResp that returns the decoded error object whenever there is
\* one, whether or not the decoding reported an error.
handleErrorRespAnyErrorObject(resp) ==
    LET errRes == UnmarshalErrorResponse(resp.body) IN
    IF resp.end # "EOF"
    THEN [type |-> "error, reading response body", of |-> resp.end]
    ELSE IF errRes.Error.isNil
    THEN [type |-> "RequestError", HTTPStatusCode |-> resp.StatusCode,
          Err |-> errRes.err, Body |-> resp.body]
    ELSE [type |-> "APIError", Code |-> errRes.Error.Code, Message |-> errRes.Error.Message]

\* Client.handleErrorResp
handleErrorResp(resp) ==
    LET errRes == UnmarshalErrorResponse(resp.body) IN
    IF resp.end # "EOF"
    THEN [type |-> "error, reading response body", of |-> resp.end]
    ELSE IF errRes.err # Nil \/ errRes.Error.isNil
    THEN [type |-> "RequestError", HTTPStatusCode |-> resp.StatusCode,
          Err |-> IF ~errRes.Error.isNil THEN "APIError" ELSE errRes.err,
          Body |-> resp.body]
    ELSE [type |-> "APIError", Code |-> errRes.Error.Code, Message |-> errRes.Error.Message]

\* A status test that takes only client and server errors for errors.
IsErrorStatusFrom400(code) == code >= 400

\* The status test of CompletionStream, ChatCompletionStream and sendRequest:
\* resp.StatusCode < http.StatusOK || resp.StatusCode >= http.StatusBadRequest
IsErrorStatus(code) == code < 200 \/ code >= 400

\* What the transport does with the request: Do fails, or Do returns one of
\* the responses rs.
DoResults(rs) == {[ok |-> FALSE, resp |-> NoResponse]} \cup {[ok |-> TRUE, resp |-> r] : r \in rs}

\* An initiator that returns the reader together with the error of an error status.
StreamCallKeepsReader(built, do) ==
    IF ~built THEN [reader |-> FALSE, err |-> [type |-> "newRequest"]]
    ELSE IF ~do.ok THEN [reader |-> FALSE, err |-> [type |-> "transport"]]
    ELSE IF IsErrorStatus(do.resp.StatusCode)
    THEN [reader |-> TRUE, err |-> handleErrorResp(do.resp)]
    ELSE [reader |-> TRUE, err |-> NoError]

\* CompletionStream / ChatCompletionStream: built says whether newRequest
\* succeeded, do is what httpClient.Do returns.  The result is the pair
\* (reader, err) the initiator returns.
StreamCall(built, do) ==
    IF ~built THEN [reader |-> FALSE, err |-> [type |-> "newRequest"]]
    ELSE IF ~do.ok THEN [reader |-> FALSE, err |-> [type |-> "transport"]]
    ELSE IF IsErrorStatus(do.resp.StatusCode)
    THEN [reader |-> FALSE, err |-> handleErrorResp(do.resp)]
    ELSE [reader |-> TRUE, err |-> NoError]

\* An initiator that calls Do a second time when the transport failed.
DoInvocationsWithRetry(built, do) == IF ~built THEN 0 ELSE IF do.ok THEN 1 ELSE 2

\* resp, err := c.httpClient.Do(req): the number of times one call of the
\* initiator invokes Do.
DoInvocations(built, do) == IF built THEN 1 ELSE 0

\* An initiator that leaves the body of an error response open.
BodyClosesNever(errorStatus) == 0

\* An initiator that closes the body of every response before it returns.
BodyClosesAlways(errorStatus) == 1

\* defer resp.Body.Close() inside the error-status branch: the number of
\* times the initiator has closed the body when it returns.
BodyClosesOnReturn(errorStatus) == IF errorStatus THEN 1 ELSE 0

\* The values of request.Stream (*bool): nil, or a pointer to false or to true.
StreamValues == {Nil, "false", "true"}
\* A request built without a stream option.
UnsetStream == {Nil}

\* An initiator that switches streaming on only where the caller said nothing.
EnableStreamIfUnset(stream) ==
    [caller |-> stream, callee |-> IF stream = Nil THEN "true" ELSE stream]

\* An initiator that writes true through the caller's pointer.
EnableStreamInPlace(stream) ==
    [caller |-> IF stream = Nil THEN Nil ELSE "true", callee |-> "true"]

\* streamEnabled := true; request.Stream = &streamEnabled, on the initiator's
\* copy of the request: caller is request.Stream as the caller sees it after
\* the call, callee the value in the copy that is marshalled.
EnableStream(stream) == [caller |-> stream, callee |-> "true"]

\* json.Marshal of the field Stream *bool `json:"stream,omitempty"`: the
\* value of the member "stream" of the request body, "absent" for nil.
MarshalStream(stream) == IF stream = Nil THEN "absent" ELSE stream

\* No call of an entry point yet.
NoCall == [entry |-> "none", given |-> Nil, request |-> Nil, newRequest |-> FALSE, sent |-> "none"]

\* A test that refuses every request that names the stream option.
StreamRequestedIfSet(stream) == stream # Nil

\* request.Stream != nil && *request.Stream
StreamRequested(stream) == stream # Nil /\ stream = "true"

ErrCompletionStreamNotSupported == [type |-> "ErrCompletionStreamNotSupported"]

\* A status test of sendRequest that lets the 1xx codes pass.
SendIsErrorStatusFrom400(code) == code >= 400

\* The status test of sendRequest:
\* res.StatusCode < http.StatusOK || res.StatusCode >= http.StatusBadRequest
SendIsErrorStatus(code) == code < 200 \/ code >= 400

\* The JSON texts with a member of the wrong type for the response type v:
\* CompletionResponse has the string Provider and the int64 Created,
\* ChatCompletionResponse has neither.
TypeErrorsOf(v) == IF v = "CompletionResponse" THEN {"JTYPE", "JPROV"} ELSE {}

\* json.NewDecoder(res.Body).Decode(v): the decoder reads the first JSON value
\* of the body, after white space, and leaves what follows it unread.
Decode(resp, v) ==
    LET rest == TrimLeft(resp.body) IN
    IF rest = <<>> THEN [type |-> "decode", of |-> resp.end]
    ELSE IF rest[1] \notin JSONText THEN [type |-> "decode", of |-> "syntax"]
    ELSE IF rest[1] \in TypeErrorsOf(v) THEN [type |-> "decode", of |-> "type"]
    ELSE NoError

\* Client.sendRequest after newRequest succeeded; do is what httpClient.Do
\* returns.  The deferred close assigns to a local err and changes no result.
sendRequest(do, v) ==
    IF ~do.ok THEN [type |-> "transport"]
    ELSE IF SendIsErrorStatus(do.resp.StatusCode) THEN handleErrorResp(do.resp)
    ELSE Decode(do.resp, v)

\* Completion / ChatCompletion: the error returned, and whether newRequest
\* and httpClient.Do were called.
SyncCall(stream, built, do, v) ==
    IF StreamRequested(stream)
    THEN [err |-> ErrCompletionStreamNotSupported, built |-> FALSE, sent |-> FALSE]
    ELSE IF ~built THEN [err |-> [type |-> "newRequest"], built |-> TRUE, sent |-> FALSE]
    ELSE [err |-> sendRequest(do, v), built |-> TRUE, sent |-> TRUE]

(***************************************************************************)
(* State                                                                   *)
(***************************************************************************)

VARIABLES
    phase,      \* "idle", then "open" (a reader exists) or "failed" (the initiator returned an error)
    ret,        \* what the initiator returned: [reader, err]
    response,   \* the reader's response field (the response Do returned)
    hasScanner, \* whether the reader's reader field is set
    pos,        \* number of atoms of the body read so far
    closed,     \* whether Body.Close has been called
    bodyCloses, \* number of Body.Close calls
    buf,        \* the unread part of the scanner's buffer
    scanbuf,    \* the scanner's buffer in bytes: [part, start, len] as in NewBuffer
    serr,       \* the scanner's err
    rpc,        \* position of the consumer: "idle", "reading" (inside Recv, in Read) or "panic"
    cur,        \* Recv's local variable response while a call is in progress
    callClosed, \* whether Close had been called when the Recv in progress was called
    out,        \* the results the Recv calls returned, in order
    closeRets,  \* the results the Close calls returned, in order
    doCalls,    \* number of calls of httpClient.Do
    call,       \* the entry point called: request.Stream given and left to the caller,
                \* whether newRequest was called, and the "stream" member of the body sent
    loop        \* the iterations of the loop of the Recv call in progress (or of the
                \* last one), the lines all calls took from the scanner, and the
                \* lines taken before this call

vars == <<phase, ret, response, hasScanner, pos, closed, bodyCloses, buf, scanbuf, serr, rpc, cur,
          callClosed, out, closeRets, doCalls, call, loop>>

readerVars == <<pos, closed, bodyCloses, buf, scanbuf, serr, rpc, cur, callClosed, out, closeRets, loop>>

\* No Recv call yet.
NoLoop == [iters |-> 0, lines |-> 0, before |-> 0]

Init ==
    /\ phase = "idle"
    /\ ret = [reader |-> FALSE, err |-> NoError]
    /\ response = NoResponse
    /\ hasScanner = FALSE
    /\ pos = 0
    /\ closed = FALSE
    /\ bodyCloses = 0
    /\ buf = NewBuffer.data
    /\ scanbuf = [part |-> NewBuffer.part, start |-> NewBuffer.start, len |-> NewBuffer.len]
    /\ serr = Nil
    /\ rpc = "idle"
    /\ cur = ZeroChunk
    /\ callClosed = FALSE
    /\ out = <<>>
    /\ closeRets = <<>>
    /\ doCalls = 0
    /\ call = NoCall
    /\ loop = NoLoop

\* CompletionStream / ChatCompletionStream.  On an error status the body is
\* read by handleErrorResp and closed by the deferred resp.Body.Close().
StreamInitiator(entry, rs, streams) ==
    /\ phase = "idle"
    /\ \E built \in BOOLEAN, do \in DoResults(rs), stream \in streams :
         LET r == StreamCall(built, do)
             got == built /\ do.ok
             failedStatus == got /\ IsErrorStatus(do.resp.StatusCode)
             request == EnableStream(stream)
         IN
         /\ call' = [entry |-> entry, given |-> stream,
                     request |-> request.caller, newRequest |-> TRUE,
                     sent |-> IF built THEN MarshalStream(request.callee) ELSE "none"]
         /\ ret' = r
         /\ phase' = IF r.reader THEN "open" ELSE "failed"
         /\ response' = IF built THEN do.resp ELSE NoResponse
         /\ hasScanner' = r.reader
         /\ pos' = IF failedStatus THEN Len(do.resp.body) ELSE 0
         /\ closed' = (got /\ BodyClosesOnReturn(failedStatus) > 0)
         /\ bodyCloses' = IF got THEN BodyClosesOnReturn(failedStatus) ELSE 0
         /\ doCalls' = DoInvocations(built, do)
    /\ UNCHANGED <<buf, scanbuf, serr, rpc, cur, callClosed, out, closeRets, loop>>

CompletionStream(rs, streams) == StreamInitiator("CompletionStream", rs, streams)

\* The initiator of a chat stream differs in the endpoint and in the reader
\* it returns.
ChatCompletionStream(rs, streams) == StreamInitiator("ChatCompletionStream", rs, streams)

\* The reader in use is a ChatCompletionStreamReader.
IsChatReader == call.entry = "ChatCompletionStream"

\* NewCompletionStreamReader / NewChatCompletionStreamReader called by the
\* user with a response of their own whose Body is nil, and the zero value of
\* the reader types.
NewReaderWithoutBody ==
    /\ phase = "idle"
    /\ \E zero \in BOOLEAN :
         /\ response' = IF zero THEN NoResponse ELSE NoBodyResponse
         /\ hasScanner' = ~zero
    /\ phase' = "open"
    /\ UNCHANGED <<ret, readerVars, doCalls, call>>

\* A Recv that closes the body when it returns io.EOF.
RecvClosesBodyAtEnd(cause) == cause \in {"done", "stop"}

\* Whether Recv closes the body on the return statement named by cause: none
\* of its returns does, Body.Close is called by Close alone.
RecvClosesBody(cause) == FALSE

\* The scanner's buffer.
Buffer == [data |-> buf, part |-> scanbuf.part, start |-> scanbuf.start, len |-> scanbuf.len]

\* The state after Recv's loop ran from the scanner state (b, e).
Continue(b, e, response0, calledClosed) ==
    \E r \in {IF IsChatReader THEN ChatRecvLoop(b, e, response0)
                ELSE RecvLoop(b, e, response0)} :
    /\ buf' = r.buf.data
    /\ scanbuf' = [part |-> r.buf.part, start |-> r.buf.start, len |-> r.buf.len]
    /\ closed' = (closed \/ (r.kind = "return" /\ RecvClosesBody(r.cause)))
    /\ bodyCloses' = IF r.kind = "return" /\ RecvClosesBody(r.cause)
                     THEN bodyCloses + 1 ELSE bodyCloses
    /\ serr' = r.serr
    /\ loop' = IF rpc = "idle"
               THEN [iters |-> r.iters, lines |-> loop.lines + r.lines, before |-> loop.lines]
               ELSE [loop EXCEPT !.iters = @ + r.iters, !.lines = @ + r.lines]
    /\ IF r.kind = "read"
       THEN IF response.hasBody
            THEN /\ rpc' = "reading"
                 /\ cur' = r.response
                 /\ callClosed' = calledClosed
                 /\ out' = out
            ELSE /\ rpc' = "panic"
                 /\ cur' = ZeroChunk
                 /\ callClosed' = FALSE
                 /\ out' = out
       ELSE /\ rpc' = "idle"
            /\ cur' = ZeroChunk
            /\ callClosed' = FALSE
            /\ out' = Append(out, [chunk |-> r.response, err |-> r.err, cause |-> r.cause,
                                   afterClose |-> calledClosed])

\* A call of Recv, up to its return or to its first Read of the body.
Recv ==
    /\ phase = "open"
    /\ rpc = "idle"
    /\ Len(out) < MaxRecv
    /\ IF hasScanner
       THEN Continue(Buffer, serr, IF IsChatReader THEN ZeroChatChunk ELSE ZeroChunk,
                     closeRets # <<>>)
       ELSE /\ rpc' = "panic"
            /\ UNCHANGED <<buf, scanbuf, serr, cur, callClosed, out, closed, bodyCloses, loop>>
    /\ UNCHANGED <<phase, ret, response, hasScanner, pos, closeRets, doCalls, call>>

\* Where a Read may stop: after any of the atoms of the body that are left,
\* and inside a long run.
ReadStops(body, at) == at \in 1..Len(body)

\* What a Read that stops in a long run returns of it at most: a few bytes
\* when it starts the run, otherwise all there is room for.
ReadSizes(b) == IF b.part > 0 THEN {MaxScanTokenSize} ELSE {ShortRead, MaxScanTokenSize}

\* The errors a Read returns together with bytes that end at atom at of the
\* body: nil, and with the last bytes of the body also the body's end
\* (io.EOF or the transport's failure), which the scanner takes with setErr.
ReadErrs(resp, at, e) ==
    IF at = Len(resp.body) THEN {e, SetErr(e, resp.end)} ELSE {e}

\* The Read of the body that Recv waits in returns: an error on a closed body
\* or when the context is done, more of the long run the buffer ends with,
\* the body's end, or some of the bytes that are left, as many as the buffer
\* has room for, the last of them with or without the body's end; Recv goes
\* on from there.
ReadReturns ==
    /\ rpc = "reading"
    /\ IF closed
       THEN /\ Continue(Buffer, SetErr(serr, "read on closed response body"), cur, callClosed)
            /\ pos' = pos
       ELSE IF pos = Len(response.body) /\ (scanbuf.part = 0 \/ response.end = "context canceled")
       THEN /\ Continue(Buffer, SetErr(serr, response.end), cur, callClosed)
            /\ pos' = pos
       ELSE IF scanbuf.part > 0
       THEN /\ \E k \in ReadSizes(Buffer) : Continue(Fill(Buffer, <<>>, k), serr, cur, callClosed)
            /\ pos' = pos
       ELSE \E n \in 1..(Len(response.body) - pos) :
              LET p == SubSeq(response.body, pos + 1, pos + n)
                  long == p[n] \in BigAtoms
              IN
              /\ \A i \in 1..(n - 1) : p[i] \notin BigAtoms
              /\ Bytes(SubSeq(p, 1, n - 1)) < Free(Buffer)
              /\ ~long => Bytes(p) <= Free(Buffer)
              /\ ReadStops(response.body, pos + n)
              /\ \E k \in IF long THEN ReadSizes(Buffer) ELSE {MaxScanTokenSize},
                     e \in IF long THEN {serr} ELSE ReadErrs(response, pos + n, serr) :
                     Continue(Fill(Buffer, p, k), e, cur, callClosed)
              /\ pos' = pos + n
    /\ UNCHANGED <<phase, ret, response, hasScanner, closeRets, doCalls, call>>

\* A Close that swallows the result of closing the body.
CloseResultNil(resp) == Nil

\* What Close returns.
CloseResult(resp) == IF resp.present /\ resp.hasBody THEN resp.closeErr ELSE Nil

\* Close of a stream reader, also while a Recv waits in Read.
Close ==
    /\ phase = "open"
    /\ Len(closeRets) < MaxClose
    /\ closeRets' = Append(closeRets, CloseResult(response))
    /\ closed' = (closed \/ (response.present /\ response.hasBody))
    /\ bodyCloses' = IF response.present /\ response.hasBody THEN bodyCloses + 1 ELSE bodyCloses
    /\ UNCHANGED <<phase, ret, response, hasScanner, pos, buf, scanbuf, serr, rpc, cur,
                   callClosed, out, doCalls, call, loop>>

\* How much of the body sendRequest may have read when it returns, in atoms:
\* io.ReadAll in handleErrorResp reads all of it; the decoder asks for bytes
\* until it has the first JSON value or a syntax error, so it stops at the
\* atom that value starts with or after a later one, as the Reads fall.
SendReads(resp) ==
    LET rest == TrimLeft(resp.body) IN
    IF SendIsErrorStatus(resp.StatusCode) \/ rest = <<>> THEN {Len(resp.body)}
    ELSE (Len(resp.body) - Len(rest) + 1)..Len(resp.body)

\* Completion / ChatCompletion.  sendRequest reads the body of the response
\* it gets, as far as it needs, and closes it before it returns.
SyncEntry(entry, v, rs, streams) ==
    /\ phase = "idle"
    /\ \E built \in BOOLEAN, do \in DoResults(rs), stream \in streams :
         LET r == SyncCall(stream, built, do, v)
             got == r.sent /\ do.ok
         IN
         /\ \E read \in IF got THEN SendReads(do.resp) ELSE {0} : pos' = read
         /\ call' = [entry |-> entry, given |-> stream, request |-> stream,
                     newRequest |-> r.built,
                     sent |-> IF r.sent THEN MarshalStream(stream) ELSE "none"]
         /\ ret' = [reader |-> FALSE, err |-> r.err]
         /\ phase' = "returned"
         /\ response' = IF r.sent THEN do.resp ELSE NoResponse
         /\ closed' = got
         /\ bodyCloses' = IF got THEN 1 ELSE 0
         /\ doCalls' = IF r.sent THEN 1 ELSE 0
    /\ UNCHANGED <<hasScanner, buf, scanbuf, serr, rpc, cur, callClosed, out, closeRets, loop>>

Completion(rs, streams) == SyncEntry("Completion", "CompletionResponse", rs, streams)

ChatCompletion(rs, streams) ==
    SyncEntry("ChatCompletion", "ChatCompletionResponse", rs, streams)

\* The synchronous entry points.
SyncEntries == {"Completion", "ChatCompletion"}

Next == CompletionStream(Responses, UnsetStream) \/ NewReaderWithoutBody \/ Recv \/ ReadReturns \/ Close

Spec == Init /\ [][Next]_vars

\* The same program on streams with long comments.
NextComments ==
    \/ CompletionStream(StreamResponses(CommentCatalogue), UnsetStream)
    \/ NewReaderWithoutBody
    \/ Recv
    \/ ReadReturns
    \/ Close

SpecComments == Init /\ [][NextComments]_vars

\* The responses with short bodies, for every status code.
ShortResponses ==
    {Response(code, ls, TRUE, e, c) :
        code \in StatusCodes, ls \in ShortBodies, e \in Ends, c \in {Nil, "close failed"}}

\* The entry points called with every value of request.Stream.
NextCalls ==
    \/ CompletionStream(ShortResponses, StreamValues)
    \/ Completion(ShortResponses, StreamValues)
    \/ ChatCompletion(ShortResponses, StreamValues)

SpecCalls == Init /\ [][NextCalls]_vars

\* The lines of the streams whose context is cancelled.
CancelCatalogue == {<<>>, DataLine("J1"), DataLine("JBAD"), DataLine("[DONE]")}

\* The responses of these streams: what the server sends ends cleanly.
CancelResponses == {r \in StreamResponses(CancelCatalogue) : r.end = "EOF"}

\* The entry points that return a stream reader.
StreamEntries == {"CompletionStream", "ChatCompletionStream"}

\* The context given to the initiator is cancelled or its deadline fires
\* while the reader is in use: the transport delivers nothing of the body
\* beyond what was read, and the Read of the body fails with the context's
\* error.
Cancel ==
    /\ phase = "open"
    /\ call.entry \in StreamEntries
    /\ response.end # "context canceled"
    /\ response' = [response EXCEPT !.body = SubSeq(response.body, 1, pos),
                                    !.end = "context canceled"]
    /\ UNCHANGED <<phase, ret, hasScanner, readerVars, doCalls, call>>

Cancelled == response.end = "context canceled"

\* The Read of a cancelled request returns.
CancelledReadReturns == Cancelled /\ ReadReturns

NextCancel ==
    \/ CompletionStream(CancelResponses, UnsetStream)
    \/ ChatCompletionStream(CancelResponses, UnsetStream)
    \/ Recv
    \/ ReadReturns
    \/ Cancel

\* The reader of a request whose context can be cancelled.  A Read of the
\* body does not wait for the server once the context is done.
SpecCancel == Init /\ [][NextCancel]_vars /\ WF_vars(CancelledReadReturns)

\* The lines of the streams with lines longer than the scanner's token
\* limit: a long payload, a long comment, and lines made long by trailing
\* spaces.
LongCatalogue ==
    { DataLine("J1"), DataLine("J2"), DataLine("JBIG"), <<":", "XBIG">>,
      DataLine("J1") \o <<"PAD">>, DataLine("[DONE]") \o <<"PAD">> }

NextLong ==
    \/ CompletionStream(StreamResponses(LongCatalogue), UnsetStream)
    \/ Recv
    \/ ReadReturns
    \/ Close

\* The reader on streams with over-long lines.
SpecLong == Init /\ [][NextLong]_vars

\* The lines of streams with other SSE fields: "event" stands for a line such
\* as `event: x`, `id: 7` or `retry: 10`, "event" and "XBIG" for such a line
\* longer than the scanner's token limit.
FieldCatalogue ==
    { <<"event">>, <<"event", "XBIG">>,
      DataLine("J1"), DataLine("J2"), DataLine("[DONE]"), DataLine("JBAD") }

NextFields ==
    \/ CompletionStream(StreamResponses(FieldCatalogue), UnsetStream)
    \/ Recv
    \/ ReadReturns

\* The reader on streams with other SSE fields.
SpecFields == Init /\ [][NextFields]_vars

\* The lines of streams with white space around the lines: a data line, the
\* end marker and a comment, each plain and with spaces, tabs or a carriage
\* return around it, and a data line followed by a run of spaces that makes
\* it longer than the scanner's token limit.
SpaceCatalogue ==
    { DataLine("J1"), <<" ", "data:", " ", "J1", "\t">>, <<"data:", " ", "J2", "\r">>,
      DataLine("[DONE]"), <<"\t", "data:", " ", "[DONE]", " ", "\r">>,
      <<"\t", ":">>, DataLine("J1") \o <<"PAD">> }

NextSpaces ==
    \/ CompletionStream(StreamResponses(SpaceCatalogue), UnsetStream)
    \/ Recv
    \/ ReadReturns

\* The reader on streams with white space around the lines.
SpecSpaces == Init /\ [][NextSpaces]_vars

\* The lines of the streams read by both readers: payloads that decode as
\* both chunk types, as neither, and as a chat chunk only.
BothCatalogue ==
    { <<":">>, DataLine("J1"), DataLine("JPROV"), DataLine("JTYPE"), DataLine("JBAD"),
      DataLine("[DONE]") }

NextBoth ==
    \/ CompletionStream(StreamResponses(BothCatalogue), UnsetStream)
    \/ ChatCompletionStream(StreamResponses(BothCatalogue), UnsetStream)
    \/ Recv
    \/ ReadReturns

\* The completion reader and the chat reader on the same streams.
SpecBoth == Init /\ [][NextBoth]_vars

\* The lines of the streams that test the data prefix: the end marker and
\* chunks (one of them longer than the scanner's token limit) right after
\* "data:", "data:" alone and with its space only, and a data line and the
\* end marker as they should be.
PrefixCatalogue ==
    { <<"data:", "[DONE]">>, <<"data:", "J1">>, <<"data:", "JBIG">>, <<"data:">>,
      <<"data:", " ">>, DataLine("J2"), DataLine("[DONE]") }

NextPrefix ==
    \/ CompletionStream(StreamResponses(PrefixCatalogue), UnsetStream)
    \/ Recv
    \/ ReadReturns

\* The reader on streams with lines that start with "data:".
SpecPrefix == Init /\ [][NextPrefix]_vars

\* The lines of the streams whose bodies end or fail: a comment, a chunk, a
\* payload that does not decode, the end marker, and a chunk on a line
\* longer than the scanner's token limit.
EndingCatalogue ==
    { <<":">>, DataLine("J1"), DataLine("JBAD"), DataLine("[DONE]"),
      DataLine("J1") \o <<"PAD">> }

NextEnding ==
    \/ CompletionStream(StreamResponses(EndingCatalogue), UnsetStream)
    \/ Recv
    \/ ReadReturns
    \/ Close

\* The reader on a body that is finite and ends or fails: a Read of the body
\* that is waited for returns bytes, the end of the body or an error.
SpecEnding == Init /\ [][NextEnding]_vars /\ WF_vars(ReadReturns)

(***************************************************************************)
(* Properties                                                              *)
(***************************************************************************)

\* A reader the initiator returned, on which Close was never called.
OpenNeverClosed == phase = "open" /\ ret.reader /\ closeRets = <<>>

IsChunk(r) == r.err = NoError

\* The lines of the catalogues, read as the wire format defines them.
IsDataLine(l) == Len(l) = 3 /\ l[1] = "data:" /\ l[2] = " "
IsDoneLine(l) == l = <<"data:", " ", "[DONE]">>
Decodes(l) == IsDataLine(l) /\ l[3] \in {"J1", "J2", "JBIG"}
Decoded(l) ==
    CASE l[3] = "J1" -> [id |-> "a", provider |-> "P"]
      [] l[3] = "J2" -> [id |-> "b", provider |-> ""]
      [] OTHER -> [id |-> "c", provider |-> ""]
\* A line that fits into the scanner's buffer together with its line end.
Fits(l) == Bytes(l) < MaxScanTokenSize

\* C1: after Close was called, every later Recv returns a non-nil error and
\* never a chunk.
C1_RecvAfterCloseFails ==
    \A i \in DOMAIN out : out[i].afterClose => ~IsChunk(out[i])

\* A body of n decodable data lines followed by the line "data: [DONE]".
WellFormedStream(ls) ==
    /\ ls # <<>>
    /\ IsDoneLine(ls[Len(ls)])
    /\ \A i \in 1..(Len(ls) - 1) : Decodes(ls[i])

\* On such a body, call i <= n returns the chunk decoded from line i and
\* call n+1 returns io.EOF.
OneChunkPerLineInOrder ==
    \A i \in DOMAIN out :
        /\ i < Len(response.lines) =>
               out[i].err = NoError /\ out[i].chunk = Decoded(response.lines[i])
        /\ i = Len(response.lines) => out[i].err = EOF

\* C2 as stated: for every body of n well-formed data lines followed by
\* "data: [DONE]", the first n Recv calls return one chunk per line, in order,
\* and call n+1 returns io.EOF.
C2_EveryWellFormedStream ==
    (OpenNeverClosed /\ WellFormedStream(response.lines)) => OneChunkPerLineInOrder

\* C2 amended: the same, for bodies whose lines are shorter than the scanner's
\* token limit (bufio.MaxScanTokenSize).
C2_WellFormedStreamOfFittingLines ==
    (/\ OpenNeverClosed
     /\ WellFormedStream(response.lines)
     /\ \A i \in DOMAIN response.lines : Fits(response.lines[i]))
    => OneChunkPerLineInOrder

\* Two different chunks and the end of the stream were returned, in their order.
C2_Witness ==
    /\ OpenNeverClosed
    /\ WellFormedStream(response.lines)
    /\ \A i \in DOMAIN response.lines : Fits(response.lines[i])
    /\ Len(response.lines) = 3
    /\ response.lines[1] # response.lines[2]
    /\ Len(out) = 3
    /\ out[3].err = EOF

\* C3: once Recv returned io.EOF because it read "data: [DONE]", every later
\* Recv called before Close returns io.EOF as well, never a chunk.
C3_EndOfStreamStaysAfterDone ==
    \A i, j \in DOMAIN out :
        (i < j /\ out[i].cause = "done" /\ ~out[j].afterClose) => out[j].err = EOF

\* The lines before the first "data: [DONE]" line.
RECURSIVE BeforeDone(_)
BeforeDone(ls) ==
    IF ls = <<>> \/ IsDoneLine(Head(ls)) THEN <<>> ELSE <<Head(ls)>> \o BeforeDone(Tail(ls))

\* The decodable data lines before the terminator, in their order.
DecodableLines(ls) == SelectSeq(BeforeDone(ls), Decodes)

\* The data lines before the terminator that fail to decode.
MalformedLines(ls) == SelectSeq(BeforeDone(ls), LAMBDA l : IsDataLine(l) /\ ~Decodes(l))

\* The chunks returned are the decodable data lines before the terminator, one
\* result each and in their order; the result after them is no chunk.
ChunksAreTheDecodableLines ==
    LET d == DecodableLines(response.lines) IN
    \A i \in DOMAIN out :
        /\ i <= Len(d) => IsChunk(out[i]) /\ out[i].chunk.id = Decoded(d[i]).id
        /\ i = Len(d) + 1 => ~IsChunk(out[i])

RECURSIVE RecvAll(_, _, _, _, _, _)
RecvAll(b, e, rest, end, response0, k) ==
    IF k = 0 THEN <<>>
    ELSE LET r == RecvLoop(b, e, response0) IN
         IF r.kind = "read"
         THEN IF r.buf.part > 0
              THEN RecvAll(Fill(r.buf, <<>>, MaxScanTokenSize), r.serr, rest, end, r.response, k)
              ELSE IF rest = <<>>
              THEN RecvAll(r.buf, SetErr(r.serr, end), rest, end, r.response, k)
              ELSE RecvAll(Fill(r.buf, <<Head(rest)>>, MaxScanTokenSize), r.serr, Tail(rest), end,
                           r.response, k)
         ELSE <<[chunk |-> r.response, err |-> r.err]>>
              \o RecvAll(r.buf, r.serr, rest, end, ZeroChunk, k - 1)

\* A blank line, or a comment: its first non-space character is ":".
IsBlankOrComment(l) == TrimLeft(l) = <<>> \/ Head(TrimLeft(l)) = ":"

\* The body without its blank and comment lines.
StrippedBody(resp) ==
    LET kept == SelectSeq(resp.lines, LAMBDA l : ~IsBlankOrComment(l)) IN
    Join(kept, IF resp.lines # <<>> /\ ~IsBlankOrComment(resp.lines[Len(resp.lines)])
               THEN resp.terminated ELSE TRUE)

\* The results returned so far are those of the body without its blank and
\* comment lines.
SameResultsWithoutCommentLines ==
    LET expected == RecvAll(NewBuffer, Nil, StrippedBody(response), response.end, ZeroChunk, Len(out)) IN
    \A i \in DOMAIN out : [chunk |-> out[i].chunk, err |-> out[i].err] = expected[i]

\* C5 as stated: inserting blank lines or comment lines anywhere in a stream
\* does not change the sequence of results of successive Recv calls.
C5_CommentLinesChangeNothing ==
    OpenNeverClosed => SameResultsWithoutCommentLines

\* C5 amended: the same for blank and comment lines shorter than the scanner's
\* token limit.
C5_FittingCommentLinesChangeNothing ==
    (/\ OpenNeverClosed
     /\ \A i \in DOMAIN response.lines :
            IsBlankOrComment(response.lines[i]) => Fits(response.lines[i]))
    => SameResultsWithoutCommentLines

\* A blank or comment line stood before a data line and a blank line behind it:
\* one chunk and the end of the stream were returned.
C5_Witness ==
    /\ OpenNeverClosed
    /\ Len(response.lines) = 3
    /\ IsBlankOrComment(response.lines[1]) /\ Fits(response.lines[1])
    /\ Decodes(response.lines[2])
    /\ response.lines[3] = <<>>
    /\ response.end = "EOF"
    /\ Len(out) = 2
    /\ IsChunk(out[1])
    /\ out[2].err = EOF

\* A body without any "data: [DONE]" line that ends cleanly.
EndsWithoutDone(resp) ==
    /\ resp.end = "EOF"
    /\ \A i \in DOMAIN resp.lines : ~IsDoneLine(resp.lines[i])

\* Every decodable data line is yielded, then the call that finds the body at
\* its end returns io.EOF itself, not a wrapped error.
AllLinesThenEOF ==
    LET d == DecodableLines(response.lines) IN
    \A i \in DOMAIN out :
        /\ i <= Len(d) => IsChunk(out[i]) /\ out[i].chunk.id = Decoded(d[i]).id
        /\ i = Len(d) + 1 => out[i].err = EOF /\ out[i].cause = "stop"

\* C6 as stated: when the body ends cleanly and "data: [DONE]" was never sent,
\* the Recv that observes the end returns io.EOF, after every decodable data
\* line before the end was yielded.
C6_CleanEndIsEOF ==
    (OpenNeverClosed /\ EndsWithoutDone(response)) => AllLinesThenEOF

\* C6 amended: the same for bodies whose lines are shorter than the scanner's
\* token limit.
C6_CleanEndOfFittingLinesIsEOF ==
    (/\ OpenNeverClosed
     /\ EndsWithoutDone(response)
     /\ \A i \in DOMAIN response.lines : Fits(response.lines[i]))
    => AllLinesThenEOF

\* Two data lines, the second without a line end, were yielded, and the third
\* Recv found the body at its end.
C6_Witness ==
    /\ OpenNeverClosed
    /\ EndsWithoutDone(response)
    /\ Len(response.lines) = 2
    /\ \A i \in DOMAIN response.lines : Decodes(response.lines[i]) /\ Fits(response.lines[i])
    /\ ~response.terminated
    /\ Len(out) = 3
    /\ IsChunk(out[2])
    /\ out[3].err = EOF
    /\ out[3].cause = "stop"

\* The initiator returned after httpClient.Do gave it a response.
DoReturnedResponse ==
    phase # "idle" /\ doCalls = 1 /\ ret.err.type # "transport"

NoReaderButError == ~ret.reader /\ ret.err.type # Nil /\ phase = "failed"
ReaderAndNoError == ret.reader /\ ret.err.type = Nil /\ phase = "open"

\* C7 as stated: for every response whose status code lies outside 200-299
\* (1xx and 3xx included) the initiator returns an error and no reader.
C7_ErrorOutside2xx ==
    (DoReturnedResponse /\ (response.StatusCode < 200 \/ response.StatusCode > 299))
    => NoReaderButError

\* What the initiators do instead: for a status code below 200 or at least
\* 400 they return an error and no reader; for the codes 200-399 (3xx
\* included) they return a reader and no error.
C7_ErrorBelow200OrFrom400 ==
    DoReturnedResponse =>
        IF response.StatusCode < 200 \/ response.StatusCode >= 400
        THEN NoReaderButError
        ELSE ReaderAndNoError

\* A 3xx response that the transport handed over gave a reader and no error.
C7_Witness ==
    DoReturnedResponse /\ response.StatusCode = 304 /\ ReaderAndNoError

Last(s) == s[Len(s)]

\* C8: when the scanner stopped on a read failure other than io.EOF, Recv
\* returns that error wrapped as "error reading stream: ...", which is not
\* io.EOF; Recv returns io.EOF at the end of the scan only after a clean end.
C8_ReadFailureIsWrapped ==
    (rpc = "idle" /\ out # <<>> /\ Last(out).cause = "stop") =>
        /\ serr \notin {Nil, "EOF"} =>
               Last(out).err = ErrReadingStream(serr) /\ Last(out).err # EOF
        /\ Last(out).err = EOF => serr = "EOF"

\* The transport failed behind the last line and Recv returned the wrapped
\* failure.
C8_Witness ==
    /\ OpenNeverClosed
    /\ response.end = "unexpected EOF"
    /\ out # <<>>
    /\ Last(out).err = ErrReadingStream("unexpected EOF")

\* The initiator returned what handleErrorResp made of the response.
ErrorResponseHandled == DoReturnedResponse /\ phase = "failed"

\* The body is valid JSON whose "error" member is an object.
HasErrorObject(body) == ValidJSON(body) /\ TrimSpace(body)[1] \in {"E_API", "E_TYPE"}

\* The body decodes into ErrorResponse without error and with an error object.
DecodesToAPIError(body) ==
    LET errRes == UnmarshalErrorResponse(body) IN errRes.err = Nil /\ ~errRes.Error.isNil

\* handleErrorResp returned *RequestError with the response's status code and
\* the bytes read.
IsRequestErrorOf(err, resp) ==
    err.type = "RequestError" /\ err.HTTPStatusCode = resp.StatusCode /\ err.Body = resp.body

\* C9 as stated: handleErrorResp never returns nil, and for a readable body it
\* returns *APIError exactly when the body is JSON with a non-null error
\* object, and otherwise *RequestError with the status code and the raw body.
C9_APIErrorWhenJSONHasErrorObject ==
    ErrorResponseHandled =>
        /\ ret.err.type # Nil
        /\ response.end = "EOF" =>
               IF HasErrorObject(response.body)
               THEN ret.err.type = "APIError"
               ELSE IsRequestErrorOf(ret.err, response)

\* C9 amended: handleErrorResp never returns nil, and for a readable body it
\* returns *APIError exactly when json.Unmarshal of the body into
\* ErrorResponse reports no error and leaves a non-nil Error; otherwise (the
\* decoding failed, an error object with a mistyped member included, or there
\* is no error object) it returns *RequestError with the status code and the
\* raw body.  An unreadable body gives "error, reading response body".
C9_APIErrorWhenEnvelopeDecodes ==
    ErrorResponseHandled =>
        /\ ret.err.type # Nil
        /\ response.end = "EOF" =>
               IF DecodesToAPIError(response.body)
               THEN ret.err.type = "APIError"
               ELSE IsRequestErrorOf(ret.err, response)
        /\ response.end # "EOF" => ret.err.type = "error, reading response body"

\* A 404 whose error object has a mistyped code came back as *RequestError
\* carrying the partly decoded error object.
C9_Witness ==
    /\ ErrorResponseHandled
    /\ response.StatusCode = 404
    /\ response.end = "EOF"
    /\ response.body = <<"E_TYPE", "\n">>
    /\ IsRequestErrorOf(ret.err, response)
    /\ ret.err.Err = "APIError"

\* The reader holds a response with a body.
ReaderHasBody == response.present /\ response.hasBody

\* C10: every call of Close, in whatever state the reader is, returns the
\* result of closing the response body (nil when the reader has no response
\* or no body), closes the body once more when there is one, and changes
\* nothing else of the reader: no Recv result, no scanner state, no panic.
C10_CloseOnlyClosesBody ==
    [][Len(closeRets') > Len(closeRets) =>
          /\ closeRets' = Append(closeRets, IF ReaderHasBody THEN response.closeErr ELSE Nil)
          /\ bodyCloses' = bodyCloses + (IF ReaderHasBody THEN 1 ELSE 0)
          /\ closed' = (closed \/ ReaderHasBody)
          /\ rpc' # "panic" \/ rpc = "panic"
          /\ UNCHANGED <<phase, ret, response, hasScanner, pos, buf, serr, rpc, cur,
                         callClosed, out, doCalls, call>>]_vars

\* Close was called twice on a reader that had delivered a chunk before the
\* first call, and each call returned the failure of closing the body.
C10_Witness ==
    /\ closeRets = <<"close failed", "close failed">>
    /\ bodyCloses = 2
    /\ rpc = "idle"
    /\ out # <<>>
    /\ IsChunk(out[1]) /\ ~out[1].afterClose

\* Close was called while the Recv in progress waited in Read.
ClosedWhileBlocked == rpc = "reading" /\ closed /\ ~callClosed

\* C11: a Recv that waits in Read while Close is called returns with an
\* error: the step in which it returns appends a result whose error is not nil.
C11_BlockedRecvFailsAfterClose ==
    [][(ClosedWhileBlocked /\ rpc' = "idle") => Last(out').err # NoError]_vars

\* C12: whatever request.Stream the caller passes (nil, false or true), the
\* body CompletionStream / ChatCompletionStream hand to the transport has
\* "stream": true.
C12_StreamingRequestHasStreamTrue ==
    (call.entry = "CompletionStream" /\ call.sent # "none") => call.sent = "true"

\* The caller asked for stream false and the body sent says true.
C12_Witness ==
    /\ call.entry = "CompletionStream"
    /\ call.given = "false"
    /\ doCalls = 1
    /\ call.sent = "true"

\* C13: Completion / ChatCompletion with request.Stream true return
\* ErrCompletionStreamNotSupported without calling newRequest or Do; with
\* nil or false they build the request and, once it is built, call Do.
C13_SyncRefusesStreamTrue ==
    call.entry \in SyncEntries =>
        IF call.given = "true"
        THEN /\ ret.err = ErrCompletionStreamNotSupported
             /\ ~call.newRequest
             /\ doCalls = 0 /\ call.sent = "none"
        ELSE /\ ret.err.type # "ErrCompletionStreamNotSupported"
             /\ call.newRequest
             /\ ret.err.type # "newRequest" => doCalls = 1 /\ call.sent = MarshalStream(call.given)

\* Completion was refused for a request with Stream true, and nothing was sent.
C13_Witness ==
    /\ call.entry = "Completion"
    /\ call.given = "true"
    /\ ret.err = ErrCompletionStreamNotSupported
    /\ doCalls = 0

\* The initiator returned the error of an error status.
FailedOnStatus == call.entry = "CompletionStream" /\ DoReturnedResponse /\ phase = "failed"

\* C14: when the initiator returns because of an error status, it has read
\* the body (handleErrorResp) and closed it once, whatever error came out:
\* *APIError, *RequestError or the error of reading the body.
C14_ErrorStatusClosesBody ==
    FailedOnStatus =>
        /\ closed /\ bodyCloses = 1
        /\ pos = Len(response.body)
        /\ ret.err = handleErrorResp(response)
        /\ ret.err.type \in {"APIError", "RequestError", "error, reading response body"}

\* An error response was turned into *APIError and its body is closed.
C14_Witness ==
    FailedOnStatus /\ ret.err.type = "APIError" /\ closed /\ bodyCloses = 1

\* The initiator returned a reader.
ReaderReturned == call.entry = "CompletionStream" /\ phase = "open" /\ ret.reader

\* C15: on a success status the initiator returns a reader on the response
\* Do returned, without having read or closed the body: the body is read only
\* by Recv calls and is closed exactly by the reader's Close calls.
C15_ReaderOwnsOpenBody ==
    ReaderReturned =>
        /\ response.present /\ response.hasBody /\ hasScanner
        /\ closed <=> closeRets # <<>>
        /\ bodyCloses = Len(closeRets)
        /\ (out = <<>> /\ rpc = "idle") => pos = 0 /\ buf = <<>>

\* The reader delivered a chunk and the whole body was read, and the body is
\* still open because Close was not called.
C15_Witness ==
    /\ ReaderReturned
    /\ ~closed /\ bodyCloses = 0
    /\ out # <<>> /\ IsChunk(out[1])
    /\ pos = Len(response.body)

\* C16: every return of CompletionStream / ChatCompletionStream has exactly
\* one of reader and error: a request that could not be built, a failure of
\* the transport (returned as Do returned it) and an error status give an
\* error and no reader, everything else a reader and no error.
C16_ReaderXorError ==
    call.entry = "CompletionStream" =>
        /\ ret.reader <=> ret.err.type = Nil
        /\ ret.reader <=> phase = "open"
        /\ doCalls = 0 => ~ret.reader /\ ret.err = [type |-> "newRequest"]
        /\ (doCalls = 1 /\ ~response.present) => ~ret.reader /\ ret.err = [type |-> "transport"]
        /\ (doCalls = 1 /\ response.present /\ IsErrorStatus(response.StatusCode)) =>
               ~ret.reader /\ ret.err.type # Nil

\* The transport failed: the initiator returned its error and no reader.
C16_Witness ==
    /\ call.entry = "CompletionStream"
    /\ doCalls = 1 /\ ~response.present
    /\ ~ret.reader /\ ret.err.type = "transport"

\* An entry point returned after Do gave it a response.
GotResponse == call.entry # "none" /\ doCalls = 1 /\ response.present

\* C17: the streaming and the synchronous entry points take the same status
\* codes for errors, and for an error response they return the same error:
\* what the entry point called returned is what the other path makes of the
\* same response.
C17_SameErrorAsSendRequest ==
    GotResponse =>
        LET do == [ok |-> TRUE, resp |-> response] IN
        /\ IsErrorStatus(response.StatusCode) <=> SendIsErrorStatus(response.StatusCode)
        /\ IsErrorStatus(response.StatusCode) =>
               /\ ret.err.type # Nil
               /\ ret.err = IF call.entry = "CompletionStream"
                            THEN sendRequest(do, "CompletionResponse")
                            ELSE StreamCall(TRUE, do).err

\* Completion got a 1xx response with an error object and returned *APIError,
\* as CompletionStream does.
C17_Witness ==
    /\ GotResponse
    /\ call.entry = "Completion"
    /\ response.StatusCode = 100
    /\ ret.err.type = "APIError"
    /\ StreamCall(TRUE, [ok |-> TRUE, resp |-> response]).err = ret.err

\* C18: when the context is cancelled while Recv waits in Read, that Recv
\* returns: with the context's error wrapped as "error reading stream: ...",
\* or first with what the bytes that had arrived before the cancellation
\* hold (a chunk or the end marker of an unterminated last line); nothing is
\* read from the transport after the cancellation, and every Recv after the
\* scanner took the error returns the wrapped error.
C18_CancelledRecvReturns ==
    /\ [][(Cancelled /\ rpc = "reading" /\ rpc' = "idle") =>
             /\ pos' = pos
             /\ \/ Last(out').err = ErrReadingStream("context canceled")
                \/ buf # <<>> /\ Last(out').cause \in {"chunk", "done"}]_vars
    /\ [][(serr = "context canceled" /\ Len(out') > Len(out)) =>
             Last(out').err = ErrReadingStream("context canceled")]_vars
    /\ (Cancelled /\ rpc = "reading") ~> (rpc = "idle")

\* The context was cancelled before the server had sent everything, and the
\* Recv that was waiting returned the wrapped error of the context.
C18_Witness ==
    /\ Cancelled
    /\ Len(response.body) < Len(Join(response.lines, response.terminated))
    /\ rpc = "idle"
    /\ out # <<>>
    /\ Last(out).err = ErrReadingStream("context canceled")

\* C19: CompletionStream / ChatCompletionStream leave the caller's request
\* as it was: after the call request.Stream has for the caller the value
\* (nil, false or true) that was passed, while the body sent says true.
C19_CallerRequestUnchanged ==
    call.entry = "CompletionStream" => call.request = call.given

\* The caller passed Stream false, the request went out with stream true and
\* the caller still has false.
C19_Witness ==
    /\ call.entry = "CompletionStream"
    /\ call.given = "false"
    /\ call.sent = "true"
    /\ call.request = "false"

\* C20: every chunk Recv returns with a nil error is what one data line of
\* the stream decodes to on its own: it holds no field of a line that was
\* skipped as malformed.
C20_ChunkFromOneLineOnly ==
    ReaderReturned =>
        \A i \in 1..Len(out) :
            IsChunk(out[i]) =>
                \E k \in 1..Len(response.lines) :
                    /\ Decodes(response.lines[k])
                    /\ out[i].chunk = Decoded(response.lines[k])

\* Recv returned the wrapped error of the scanner, and io.EOF at the end of
\* the scan.
IsReadError(r) == r.err.type = "error reading stream"
IsEndOfBody(r) == r.err = EOF /\ r.cause = "stop"

\* C21: once Recv has returned a read error, every later Recv returns an
\* error that is not io.EOF, and never a chunk; once Recv has returned io.EOF
\* because the body ended, every later Recv returns io.EOF.
C21_ErrorAndEndOfBodyStay ==
    \A i \in DOMAIN out : \A j \in DOMAIN out :
        i < j =>
            /\ IsReadError(out[i]) => out[j].err.type \notin {Nil, "io.EOF"}
            /\ IsEndOfBody(out[i]) => out[j].err = EOF

\* The number of atoms of the body that Recv calls have consumed: what was
\* read less what still waits in the scanner's buffer.
Consumed == pos - Len(buf)

\* The scanner's buffer holds the part of the body between what was consumed
\* and what was read (an atom that did not fit is cut).
BufferIsBodyPart ==
    /\ Len(buf) <= pos
    /\ pos <= Len(response.body)
    /\ \A k \in 1..Len(buf) :
           buf[k] \in {response.body[Consumed + k], Cut(response.body[Consumed + k])}

\* C22: the reader is a single-pass cursor.  In every step of Recv, Read and
\* Close the position in the body and the consumed part only grow, the
\* buffer holds only body bytes not yet consumed, and a Recv that returns a
\* chunk has consumed at least the line it decoded, so no line is delivered
\* twice.
C22_SinglePassCursor ==
    [][phase = "open" =>
          /\ pos' >= pos
          /\ Consumed' >= Consumed
          /\ BufferIsBodyPart'
          /\ (Len(out') > Len(out) /\ IsChunk(Last(out'))) => Consumed' > Consumed]_vars

\* Two chunks of two different lines were delivered, the body is used up, and
\* Close and a further Recv came after them.
C22_Witness ==
    /\ ReaderReturned
    /\ Len(out) >= 3
    /\ IsChunk(out[1]) /\ IsChunk(out[2]) /\ out[1].chunk # out[2].chunk
    /\ ~IsChunk(out[3]) /\ out[3].afterClose
    /\ pos = Len(response.body) /\ buf = <<>>

\* The body of resp without the lines that Dropped picks.
BodyWithout(resp, Dropped(_)) ==
    LET kept == SelectSeq(resp.lines, LAMBDA l : ~Dropped(l)) IN
    Join(kept, IF resp.lines # <<>> /\ ~Dropped(resp.lines[Len(resp.lines)])
               THEN resp.terminated ELSE TRUE)

\* The results returned so far are those of the body without the lines that
\* Dropped picks.
SameResultsWithout(Dropped(_)) ==
    LET expected == RecvAll(NewBuffer, Nil, BodyWithout(response, Dropped), response.end,
                            ZeroChunk, Len(out))
    IN \A i \in DOMAIN out : [chunk |-> out[i].chunk, err |-> out[i].err] = expected[i]

\* A non-empty line that starts with neither ":" nor "data: ".
IsOtherField(l) ==
    /\ TrimSpace(l) # <<>>
    /\ ~HasPrefix(TrimSpace(l), <<":">>)
    /\ ~HasPrefix(TrimSpace(l), <<"data:", " ">>)

\* C23 as stated: any non-empty line that starts with neither ":" nor
\* "data: " gives no chunk and no error and does not end the stream: the
\* Recv calls return what they return for the body without these lines.
C23_OtherFieldsAreSkipped ==
    OpenNeverClosed => SameResultsWithout(IsOtherField)

\* C23 amended: the same for such lines shorter than the scanner's token
\* limit.
C23_FittingOtherFieldsAreSkipped ==
    (/\ OpenNeverClosed
     /\ \A i \in DOMAIN response.lines :
            IsOtherField(response.lines[i]) => Fits(response.lines[i]))
    => SameResultsWithout(IsOtherField)

\* An `event:` line stood between two data lines: the two chunks came out one
\* after the other and the end of the body followed.
C23_Witness ==
    /\ OpenNeverClosed
    /\ Len(response.lines) = 3
    /\ Decodes(response.lines[1])
    /\ response.lines[2] = <<"event">>
    /\ Decodes(response.lines[3])
    /\ response.end = "EOF"
    /\ Len(out) = 3
    /\ IsChunk(out[1]) /\ IsChunk(out[2])
    /\ out[3].err = EOF

\* A line without the white space around it.
Stripped(l) == TrimRight(TrimLeft(l))

\* The line has white space around it.
IsPadded(l) == Stripped(l) # l

\* The body of resp with every line stripped of the white space around it.
BodyOfStrippedLines(resp) ==
    Join([i \in DOMAIN resp.lines |-> Stripped(resp.lines[i])], resp.terminated)

\* The results returned so far are those of the body of the stripped lines.
SameResultsAsStrippedLines ==
    LET expected == RecvAll(NewBuffer, Nil, BodyOfStrippedLines(response), response.end,
                            ZeroChunk, Len(out))
    IN \A i \in DOMAIN out : [chunk |-> out[i].chunk, err |-> out[i].err] = expected[i]

\* C24 as stated: a line that differs from "data: [DONE]", from a comment or
\* from a data line only by spaces, tabs or a carriage return around it is
\* treated exactly like the line without them: the Recv calls return what
\* they return for the body of the stripped lines.
C24_SurroundingSpaceChangesNothing ==
    OpenNeverClosed => SameResultsAsStrippedLines

\* C24 amended: the same for lines that are, white space included, shorter
\* than the scanner's token limit.
C24_FittingSurroundingSpaceChangesNothing ==
    (OpenNeverClosed /\ \A i \in DOMAIN response.lines : Fits(response.lines[i]))
    => SameResultsAsStrippedLines

\* A data line with a space in front and a tab behind gave its chunk, and an
\* end marker with a tab in front and a space and a carriage return behind
\* ended the stream.
C24_Witness ==
    /\ OpenNeverClosed
    /\ Len(response.lines) >= 2
    /\ response.lines[1] = <<" ", "data:", " ", "J1", "\t">>
    /\ response.lines[2] = <<"\t", "data:", " ", "[DONE]", " ", "\r">>
    /\ Len(out) = 2
    /\ out[1].err = NoError /\ out[1].chunk = [id |-> "a", provider |-> "P"]
    /\ out[2].err = EOF /\ out[2].cause = "done"

\* C25: one call of the initiator invokes Do at most once, and no step of
\* Recv, of the Read it waits in, or of Close invokes it again, whatever
\* failed before.
C25_NoRetry ==
    /\ [](doCalls <= 1)
    /\ [][phase # "idle" => doCalls' = doCalls]_vars

\* A Recv failed on the transport, Close and another Recv followed, and Do
\* has still been invoked once.
C25_Witness ==
    /\ ReaderReturned
    /\ doCalls = 1
    /\ Len(out) >= 2
    /\ out[1].err = ErrReadingStream("unexpected EOF")
    /\ closeRets # <<>>

\* A Recv call returned: it appended its result to out.
RecvReturned == Len(out') = Len(out) + 1

\* C26: Recv never closes the response body.  No step of a Recv call (its
\* start, a Read of the body, its return of a chunk, of io.EOF or of an error)
\* changes whether the body is closed, and a reader on which Close was never
\* called has an unclosed body whatever its Recv calls returned.
C26_RecvNeverClosesBody ==
    /\ [](OpenNeverClosed => ~closed /\ bodyCloses = 0)
    /\ [][(phase = "open" /\ (RecvReturned \/ rpc' # rpc \/ pos' # pos))
             => closed' = closed /\ bodyCloses' = bodyCloses]_vars

\* Recv returned a chunk, then io.EOF from [DONE], then a read error, and the
\* body was not closed.
C26_Witness ==
    /\ OpenNeverClosed
    /\ Len(out) >= 3
    /\ IsChunk(out[1])
    /\ out[2].err = EOF /\ out[2].cause = "done"
    /\ IsReadError(out[3])
    /\ ~closed /\ bodyCloses = 0

\* Recv returned io.EOF at the end of the body and the body was not closed.
C26_WitnessEndOfBody ==
    /\ OpenNeverClosed
    /\ out # <<>> /\ IsEndOfBody(Last(out))
    /\ ~closed /\ bodyCloses = 0

\* The results of the first k Recv calls of a chat reader, as RecvAll gives
\* them for a completion reader.
RECURSIVE ChatRecvAll(_, _, _, _, _, _)
ChatRecvAll(b, e, rest, end, response0, k) ==
    IF k = 0 THEN <<>>
    ELSE LET r == ChatRecvLoop(b, e, response0) IN
         IF r.kind = "read"
         THEN IF r.buf.part > 0
              THEN ChatRecvAll(Fill(r.buf, <<>>, MaxScanTokenSize), r.serr, rest, end,
                               r.response, k)
              ELSE IF rest = <<>>
              THEN ChatRecvAll(r.buf, SetErr(r.serr, end), rest, end, r.response, k)
              ELSE ChatRecvAll(Fill(r.buf, <<Head(rest)>>, MaxScanTokenSize), r.serr, Tail(rest),
                               end, r.response, k)
         ELSE <<[chunk |-> r.response, err |-> r.err]>>
              \o ChatRecvAll(r.buf, r.serr, rest, end, ZeroChatChunk, k - 1)

\* The kind of outcome of a Recv call.
OutcomeKind(err) ==
    IF err = NoError THEN "chunk" ELSE IF err = EOF THEN "end-of-stream" ELSE "error"

\* The payload of line l decodes under both chunk schemas or under neither.
SchemasAgreeOn(l) ==
    LET data == TrimPrefix(TrimSpace(l), <<"data:", " ">>) IN
    (UnmarshalChunk(data, ZeroChunk).err = Nil)
        <=> (UnmarshalChatChunk(data, ZeroChatChunk).err = Nil)

SchemasAgree(resp) ==
    \A i \in DOMAIN resp.lines :
        HasPrefix(TrimSpace(resp.lines[i]), <<"data:", " ">>) => SchemasAgreeOn(resp.lines[i])

\* The results of the reader of the other kind on the body of the response.
OtherReaderResults ==
    IF IsChatReader
    THEN RecvAll(NewBuffer, Nil, response.body, response.end, ZeroChunk, Len(out))
    ELSE ChatRecvAll(NewBuffer, Nil, response.body, response.end, ZeroChatChunk, Len(out))

SameOutcomeKindsAsOtherReader ==
    \A i \in DOMAIN out : OutcomeKind(out[i].err) = OutcomeKind(OtherReaderResults[i].err)

\* C27: on a stream in which every data payload decodes under both chunk
\* schemas or under neither, the completion reader and the chat reader return
\* the same kinds of outcome (chunk, end of stream, error) call by call.
C27_ReadersAgreeOnOutcomeKinds ==
    (OpenNeverClosed /\ SchemasAgree(response)) => SameOutcomeKindsAsOtherReader

\* Without the condition on the payloads the readers differ.
C27_ReadersAgreeOnAllStreams ==
    OpenNeverClosed => SameOutcomeKindsAsOtherReader

\* A chat reader skipped a payload that decodes under neither schema and
\* returned a chunk, the end of the stream and a read error.
C27_Witness ==
    /\ OpenNeverClosed /\ IsChatReader /\ SchemasAgree(response)
    /\ \E i \in DOMAIN response.lines : response.lines[i] = DataLine("JTYPE")
    /\ Len(out) >= 3
    /\ OutcomeKind(out[1].err) = "chunk"
    /\ OutcomeKind(out[2].err) = "end-of-stream"
    /\ OutcomeKind(out[3].err) = "error"

\* The index of the first line of the stream that does not fit into the
\* scanner's buffer, 0 when every line fits.
RECURSIVE FirstLongLine(_, _)
FirstLongLine(ls, i) ==
    IF i > Len(ls) THEN 0 ELSE IF ~Fits(ls[i]) THEN i ELSE FirstLongLine(ls, i + 1)

HasLongLine == FirstLongLine(response.lines, 1) > 0

\* The results of a stream that has the lines before the first long line and
\* then fails with the scanner's "token too long".
ResultsUpToLongLine ==
    LET k == FirstLongLine(response.lines, 1) IN
    RecvAll(NewBuffer, Nil, Join(SubSeq(response.lines, 1, k - 1), TRUE), "ErrTooLong",
            ZeroChunk, Len(out))

\* The Recv call that meets the long line: the first one that returns the
\* error of the scanner; 0 when no call has met it yet.
RECURSIVE FirstReadError(_, _)
FirstReadError(rs, i) ==
    IF i > Len(rs) THEN 0 ELSE IF IsReadError(rs[i]) THEN i ELSE FirstReadError(rs, i + 1)

\* Up to the call that meets the long line the results are those of the
\* lines before it, and that call returns "error reading stream".
LongLineFailsRecv ==
    LET m == FirstReadError(ResultsUpToLongLine, 1) IN
    \A i \in DOMAIN out :
        (m = 0 \/ i <= m) =>
            [chunk |-> out[i].chunk, err |-> out[i].err] = ResultsUpToLongLine[i]

\* After the call that met the long line no Recv yields a chunk.
NothingYieldedAfterLongLine ==
    LET m == FirstReadError(ResultsUpToLongLine, 1) IN
    \A i \in DOMAIN out : (m > 0 /\ i > m) => ~IsChunk(out[i])

\* C28: a line longer than the scanner's maximum token size is neither
\* yielded nor skipped: the Recv call that meets it returns a non-EOF "error
\* reading stream" error, also for a well-formed data line, and neither that
\* line nor a later line of the stream is yielded by a later Recv.
C28_LongLineStopsStream ==
    (OpenNeverClosed /\ HasLongLine) => LongLineFailsRecv /\ NothingYieldedAfterLongLine

\* The first 64 KiB of the long line hold more than white space after its
\* content: the line is long for its content, not for its padding.
LongForItsContent(l) == Fits(l) \/ ~Fits(Stripped(l))

\* What holds of C28: the same for long lines that are long without the
\* white space around them.
C28_UnpaddedLongLineStopsStream ==
    (/\ OpenNeverClosed /\ HasLongLine
     /\ \A i \in DOMAIN response.lines : LongForItsContent(response.lines[i]))
        => LongLineFailsRecv /\ NothingYieldedAfterLongLine

\* Recv returned a chunk, then failed on a well-formed data line that is too
\* long, and failed again, with a line after the long one that was never read.
C28_UnpaddedWitness ==
    /\ OpenNeverClosed
    /\ response.lines = <<DataLine("J1"), DataLine("JBIG"), DataLine("J2")>>
    /\ Len(out) >= 3
    /\ IsChunk(out[1]) /\ IsReadError(out[2]) /\ IsReadError(out[3])

\* The lines of the stream the scanner has not delivered when the Recv call
\* in progress (or the last one) started.
RemainingLines == Len(response.lines) - loop.before

\* The scanner delivers every line at most once, and a Recv call has run at
\* most one iteration for each line that remained and one more.
IterationBound ==
    /\ loop.lines <= Len(response.lines)
    /\ loop.iters <= RemainingLines + 1
    /\ loop.iters <= (loop.lines - loop.before) + 1

\* A Recv call that has not returned is in a Read of the body.
WaitsOnlyInRead == rpc \in {"idle", "reading"}

\* C29: every Recv call on a body that ends or fails terminates: an iteration
\* of its loop takes one line from the scanner, so the call runs at most
\* (number of remaining lines + 1) iterations; the only place where it waits
\* is the Read of the body, and from there it returns.
C29_RecvTerminates ==
    /\ [](ReaderReturned => IterationBound /\ WaitsOnlyInRead)
    /\ (rpc = "reading" ~> rpc = "idle")

\* A Recv call that skipped two lines, took the end of the body in its third
\* iteration and returned after it had waited for the body.
C29_Witness ==
    /\ ReaderReturned
    /\ Len(response.lines) = 2
    /\ rpc = "idle" /\ Len(out) = 1 /\ IsEndOfBody(out[1])
    /\ pos = Len(response.body)
    /\ loop = [iters |-> 3, lines |-> 2, before |-> 0]

\* A line that starts with "data:" but not with "data: " after trimming.
IsDataWithoutSpace(l) ==
    /\ HasPrefix(Stripped(l), <<"data:">>)
    /\ ~HasPrefix(Stripped(l), <<"data:", " ">>)

\* C30 as stated: a line "data:[DONE]" or "data:{json}" without the space,
\* and a line that is only "data:" after trimming, is skipped: the Recv calls
\* return what they return for the body without these lines.
C30_DataPrefixNeedsSpace ==
    OpenNeverClosed => SameResultsWithout(IsDataWithoutSpace)

\* C30 amended: the same for such lines shorter than the scanner's token
\* limit.
C30_FittingDataPrefixNeedsSpace ==
    (/\ OpenNeverClosed
     /\ \A i \in DOMAIN response.lines :
            IsDataWithoutSpace(response.lines[i]) => Fits(response.lines[i]))
    => SameResultsWithout(IsDataWithoutSpace)

\* One Recv call went over "data:[DONE]", "data:{json}" and "data: " and
\* returned io.EOF only because the body ended.
C30_Witness ==
    /\ OpenNeverClosed
    /\ response.lines = << <<"data:", "[DONE]">>, <<"data:", "J1">>, <<"data:", " ">> >>
    /\ response.end = "EOF"
    /\ Len(out) = 1 /\ IsEndOfBody(out[1])
    /\ loop.iters = 4

====
